---- MODULE Spec2Model ----
(***************************************************************************)
(* A model of snakefmt's Formatter (src/snakefmt/formatter.py): the        *)
(* emission engine (flush_buffer, process_keyword_context,                 *)
(* process_keyword_param, add_newlines), the parameter renderer            *)
(* (format_params, format_param) and the literal-aware indenter            *)
(* (string_format).                                                        *)
(*                                                                         *)
(* Text is a sequence of one-character strings, so that every Python       *)
(* string operation the code uses (splitlines, rstrip, textwrap.indent,    *)
(* textwrap.dedent, str.replace, the triple-quote regular expression) is   *)
(* computed character by character as Python computes it.                  *)
(***************************************************************************)
EXTENDS Integers, Sequences, FiniteSets, TLC

VARIABLES
    result,            \* Formatter.result: the output buffer
    lagging_comments,  \* Formatter.lagging_comments
    first,             \* Formatter.first
    buffer,            \* Parser.buffer: the pending plain text
    pc,                \* "run", "done" (after the final flush), "error" (raised)
    err,               \* the exception raised, "" when none
    nev,               \* number of emission calls made so far
    deferred,          \* history: comment lines of top-level blocks' trailing runs
    nonCommentTop,     \* history: a top-level commit had a non-comment-only line
    contentCommit,     \* history: a commit had content other than trailing comments
    lastGroup,         \* history: the last parameter group rendered, and in_rule
    rendered,          \* history: what format_params gave for it
    pin,               \* string_format call: the string and the target indent
    pout               \* string_format call: whether it was made, and its value

vars == <<result, lagging_comments, first, buffer, pc, err, nev,
          deferred, nonCommentTop, contentCommit, lastGroup, rendered, pin, pout>>

-----------------------------------------------------------------------------
(* Bounds *)

MaxEvents == 3
MaxIndent == 1

-----------------------------------------------------------------------------
(* Characters and Python string helpers *)

NL == "\n"
SP == " "
HT == "\t"
DQ == "\""
SQ == "'"
HASH == "#"

TAB == <<SP, SP, SP, SP>>

Whitespace == {SP, NL, HT}

Max(S) == CHOOSE m \in S : \A k \in S : k <= m
Min(S) == CHOOSE m \in S : \A k \in S : m <= k

Repeat(s, n) == [i \in 1..(n * Len(s)) |-> s[((i - 1) % Len(s)) + 1]]

\* str.isspace(): at least one character and all of them whitespace
IsSpace(s) == Len(s) > 0 /\ \A i \in 1..Len(s) : s[i] \in Whitespace

StartsWith(s, p) == Len(s) >= Len(p) /\ SubSeq(s, 1, Len(p)) = p
EndsWith(s, p) == Len(s) >= Len(p) /\ SubSeq(s, Len(s) - Len(p) + 1, Len(s)) = p
Drop(s, n) == SubSeq(s, n + 1, Len(s))

\* str.rstrip(chars) / str.lstrip(chars) / str.strip(chars)
RStrip(s, chars) ==
    LET keep == {i \in 1..Len(s) : s[i] \notin chars}
    IN  IF keep = {} THEN <<>> ELSE SubSeq(s, 1, Max(keep))
LStrip(s, chars) ==
    LET keep == {i \in 1..Len(s) : s[i] \notin chars}
    IN  IF keep = {} THEN <<>> ELSE SubSeq(s, Min(keep), Len(s))
Strip(s, chars) == LStrip(RStrip(s, chars), chars)

\* index of the first occurrence of p in s at or after position i, 0 when none
FindFrom(s, p, i) ==
    LET hits == {j \in i..(Len(s) - Len(p) + 1) : SubSeq(s, j, j + Len(p) - 1) = p}
    IN  IF hits = {} THEN 0 ELSE Min(hits)
Contains(s, p) == FindFrom(s, p, 1) # 0

\* str.replace(old, new): every non-overlapping occurrence, left to right
RECURSIVE Replace(_, _, _)
Replace(s, old, new) ==
    LET j == FindFrom(s, old, 1)
    IN  IF j = 0 THEN s
        ELSE SubSeq(s, 1, j - 1) \o new \o Replace(Drop(s, j + Len(old) - 1), old, new)

\* str.count(sub) for a one-character sub
CountChar(s, c) == Cardinality({i \in 1..Len(s) : s[i] = c})

\* str.splitlines(): the lines without their terminators
RECURSIVE SplitLines(_)
SplitLines(s) ==
    IF s = <<>> THEN <<>>
    ELSE LET j == FindFrom(s, <<NL>>, 1)
         IN  IF j = 0 THEN <<s>>
             ELSE <<SubSeq(s, 1, j - 1)>> \o SplitLines(Drop(s, j))

\* str.splitlines(True): the lines with their terminators
RECURSIVE SplitKeep(_)
SplitKeep(s) ==
    IF s = <<>> THEN <<>>
    ELSE LET j == FindFrom(s, <<NL>>, 1)
         IN  IF j = 0 THEN <<s>>
             ELSE <<SubSeq(s, 1, j)>> \o SplitKeep(Drop(s, j))

\* sep.join(lines)
RECURSIVE Join(_, _)
Join(sep, lines) ==
    IF lines = <<>> THEN <<>>
    ELSE IF Len(lines) = 1 THEN lines[1]
    ELSE lines[1] \o sep \o Join(sep, Tail(lines))

RECURSIVE Concat(_)
Concat(lines) == IF lines = <<>> THEN <<>> ELSE lines[1] \o Concat(Tail(lines))

\* textwrap.indent(text, prefix): the prefix goes before every line that is
\* not made of whitespace only
TextwrapIndent(text, prefix) ==
    LET ls == SplitKeep(text)
    IN  Concat([i \in 1..Len(ls) |->
                   IF Strip(ls[i], Whitespace) # <<>> THEN prefix \o ls[i] ELSE ls[i]])

-----------------------------------------------------------------------------
(* The external code formatter and the validity check *)

\* Python source the model's alphabet can hold is invalid when it has an
\* unclosed parenthesis or a splat outside a call
PyValid(text) == ~Contains(text, <<"(">>) /\ ~Contains(text, <<"*">>)

\* black puts one space either side of an assignment's "="
NormEq(s) ==
    LET j == FindFrom(s, <<"=">>, 1)
    IN  IF j = 0 THEN s
        ELSE RStrip(SubSeq(s, 1, j - 1), {SP}) \o <<SP, "=", SP>>
             \o LStrip(Drop(s, j), {SP})

\* black.format_str: a failure on invalid source; otherwise the source without
\* leading blank lines and trailing whitespace, ending in one newline
BlackFormatStr(text) ==
    IF ~PyValid(text) THEN [ok |-> FALSE, out |-> <<>>]
    ELSE LET body == NormEq(RStrip(LStrip(text, {NL}), Whitespace))
         IN  [ok |-> TRUE, out |-> IF body = <<>> THEN <<>> ELSE body \o <<NL>>]

\* run_black_format_str: InvalidPython when black reports invalid input
run_black_format_str(string) == BlackFormatStr(string)

\* ast_parse(f"param({val})"): the value must close every parenthesis it opens
\* and be one expression, not several statements
AstParses(val) == ~Contains(val, <<"(">>) /\ ~Contains(val, <<";">>)

-----------------------------------------------------------------------------
(* add_newlines *)

IsCommentLine(line) == Len(line) > 0 /\ line[1] = HASH

\* the loop over reversed(all_lines): the length of the trailing run of
\* non-empty lines starting with '#'
RECURSIVE CommentMatches(_)
CommentMatches(all_lines) ==
    IF all_lines = <<>> THEN 0
    ELSE IF ~IsCommentLine(all_lines[Len(all_lines)]) THEN 0
    ELSE 1 + CommentMatches(SubSeq(all_lines, 1, Len(all_lines) - 1))

Separator == <<NL, NL>>

\* lines 211-216: the separator unless this is the first block, then the
\* lagging comments
\* faulty variants of the separator and of the order of separator and
\* comments, against which the blank-line properties are tested
WithSeparator_OneNewline(st) == IF ~st.first THEN st.result \o <<NL>> ELSE st.result
WithSeparator_Always(st) == st.result \o Separator
WithLagging_BeforeSeparator(st) ==
    st.result \o st.lagging_comments \o (IF ~st.first THEN Separator ELSE <<>>)

WithSeparator(st) == IF ~st.first THEN st.result \o Separator ELSE st.result
WithLagging(st) == WithSeparator(st) \o st.lagging_comments

\* line 227: the lines before the trailing comments
CommittedLines(all_lines, comment_break) ==
    RStrip(Join(<<NL>>, SubSeq(all_lines, 1, comment_break)), Whitespace) \o <<NL>>

\* faulty variant: only the last comment line is kept
LaggingLines_LastOnly(all_lines, comment_break) == all_lines[Len(all_lines)] \o <<NL>>

\* line 229: the trailing comment lines
LaggingLines(all_lines, comment_break) ==
    Join(<<NL>>, SubSeq(all_lines, comment_break + 1, Len(all_lines))) \o <<NL>>

\* faulty variant: first is cleared by every call
FirstAfter_Cleared(st, comment_break) == FALSE

\* lines 235-237
FirstAfter(st, comment_break) == IF st.first /\ comment_break # 0 THEN FALSE ELSE st.first

\* lines 225-231, for a block of at least one line
SplitBlock(st, all_lines, comment_break, final_flush) ==
    [result |->
        WithLagging(st)
        \o (IF comment_break > 0 THEN CommittedLines(all_lines, comment_break) ELSE <<>>)
        \o (IF comment_break < Len(all_lines) /\ final_flush
            THEN LaggingLines(all_lines, comment_break) ELSE <<>>),
     lagging_comments |->
        IF comment_break < Len(all_lines)
        THEN LaggingLines(all_lines, comment_break) ELSE <<>>,
     first |-> FirstAfter(st, comment_break)]

\* lines 210-231: cur_indent = 0
TopLevel(st, all_lines, final_flush) ==
    IF Len(all_lines) > 0
    THEN SplitBlock(st, all_lines, Len(all_lines) - CommentMatches(all_lines), final_flush)
    ELSE [result |-> WithLagging(st), lagging_comments |-> <<>>,
          first |-> FirstAfter(st, 1)]

\* faulty variant: the held comments are written at every indent
add_newlines_WritesHeld(st, cur_indent, formatted_string, final_flush) ==
    IF cur_indent = 0
    THEN TopLevel(st, SplitLines(formatted_string), final_flush)
    ELSE [result |-> st.result \o st.lagging_comments \o formatted_string,
          lagging_comments |-> <<>>,
          first |-> FirstAfter(st, 1)]

\* faulty variant: the top-level policy at every indent
add_newlines_TopLevelEverywhere(st, cur_indent, formatted_string, final_flush) ==
    TopLevel(st, SplitLines(formatted_string), final_flush)

\* st is the record of result, lagging_comments and first; the value is the
\* record after the call
add_newlines(st, cur_indent, formatted_string, final_flush) ==
    IF cur_indent = 0
    THEN TopLevel(st, SplitLines(formatted_string), final_flush)
    ELSE [result |-> st.result \o formatted_string,
          lagging_comments |-> st.lagging_comments,
          first |-> FirstAfter(st, 1)]

-----------------------------------------------------------------------------
(* string_format *)

DQ3 == <<DQ, DQ, DQ>>
SQ3 == <<SQ, SQ, SQ>>

\* triple_quote_matcher, first match of re.finditer: the leftmost position
\* where a triple delimiter opens and the same delimiter closes later (the
\* lazy .*? stops at the first closing one); start = 0 when there is none
TripleQuoteMatch(s) ==
    LET closes(i, q) == FindFrom(s, q, i + 3)
        opens(i) == \/ SubSeq(s, i, i + 2) = DQ3 /\ closes(i, DQ3) # 0
                    \/ SubSeq(s, i, i + 2) = SQ3 /\ closes(i, SQ3) # 0
        starts == {i \in 1..(Len(s) - 5) : opens(i)}
    IN  IF starts = {} THEN [start |-> 0, end |-> 0]
        ELSE LET i == Min(starts)
                 q == SubSeq(s, i, i + 2)
             IN  [start |-> i, end |-> closes(i, q) + 2]

\* str.split("\n"): the pieces between newlines, a last empty piece included
RECURSIVE SplitNL(_)
SplitNL(s) ==
    LET j == FindFrom(s, <<NL>>, 1)
    IN  IF j = 0 THEN <<s>>
        ELSE <<SubSeq(s, 1, j - 1)>> \o SplitNL(Drop(s, j))

\* the leading run of spaces and tabs of a line
LeadingWhitespace(line) ==
    LET stops == {i \in 1..Len(line) : line[i] \notin {SP, HT}}
    IN  IF stops = {} THEN line ELSE SubSeq(line, 1, Min(stops) - 1)

\* the longest common prefix of a non-empty set of sequences
CommonPrefix(S) ==
    LET n == Min({Len(x) : x \in S})
        agree == {k \in 0..n : \A x \in S, y \in S : SubSeq(x, 1, k) = SubSeq(y, 1, k)}
    IN  SubSeq(CHOOSE x \in S : TRUE, 1, Max(agree))

\* faulty variant of textwrap.dedent: every line loses all its leading
\* whitespace
TextwrapDedent_StripEach(text) ==
    Join(<<NL>>, [i \in 1..Len(SplitNL(text)) |-> LStrip(SplitNL(text)[i], {SP, HT})])

\* textwrap.dedent: whitespace-only lines are emptied, then the common leading
\* whitespace of the lines that have content is removed from every line
TextwrapDedent(text) ==
    LET raw == SplitNL(text)
        ls == [i \in 1..Len(raw) |->
                  IF \A k \in 1..Len(raw[i]) : raw[i][k] \in {SP, HT}
                  THEN <<>> ELSE raw[i]]
        indents == {LeadingWhitespace(ls[i]) : i \in {k \in 1..Len(ls) : ls[k] # <<>>}}
        margin == IF indents = {} THEN <<>> ELSE CommonPrefix(indents)
    IN  Join(<<NL>>, [i \in 1..Len(ls) |->
                         IF margin # <<>> /\ StartsWith(ls[i], margin)
                         THEN Drop(ls[i], Len(margin)) ELSE ls[i]])

\* the text string_format emits for one matched literal
FormatLiteral(match_text, target_indent) ==
    LET used_indent == Repeat(TAB, target_indent)
        match_slice == Replace(match_text, <<HT>>, TAB)
    IN  IF CountChar(match_slice, NL) > 0 /\ target_indent > 0
        THEN TextwrapIndent(DQ3 \o TextwrapDedent(Replace(match_slice, DQ3, <<>>)) \o DQ3,
                            used_indent)
        ELSE used_indent \o match_slice

RECURSIVE string_format(_, _)
string_format(string, target_indent) ==
    LET used_indent == Repeat(TAB, target_indent)
        m == TripleQuoteMatch(string)
    IN  IF m.start = 0 THEN TextwrapIndent(string, used_indent)
        ELSE TextwrapIndent(SubSeq(string, 1, m.start - 1), used_indent)
             \o FormatLiteral(SubSeq(string, m.start, m.end), target_indent)
             \o string_format(Drop(string, m.end), target_indent)

-----------------------------------------------------------------------------
(* format_param and format_params *)

\* ParameterSyntax kinds; SingleParam and RuleInlineSingleParam are the
\* single-parameter kinds
ParamList == "ParamList"
SingleParam == "SingleParam"
RuleInlineSingleParam == "RuleInlineSingleParam"
ParamKinds == {ParamList, SingleParam, RuleInlineSingleParam}
IsSingleParamKind(p_class) == p_class \in {SingleParam, RuleInlineSingleParam}

\* Parameter: key (empty when the parameter has none), value, comments
has_a_key(parameter) == parameter.key # <<>>
ParameterStr(parameter) ==
    IF has_a_key(parameter) THEN parameter.key \o <<"=">> \o parameter.value
    ELSE parameter.value

Raised(e) == [ok |-> FALSE, err |-> e, out |-> <<>>]
Returned(text) == [ok |-> TRUE, err |-> "", out |-> text]

\* lines 167-169: the first " = " loses its spaces; without one re.match
\* gives None and .group raises
StripKeySpaces(val, eq) ==
    IF eq = 0 THEN Raised("AttributeError")
    ELSE Returned(SubSeq(val, 1, eq - 1) \o <<"=">> \o Drop(val, eq + 2))

\* lines 166-169
Indented(parameter, val) ==
    IF has_a_key(parameter) THEN StripKeySpaces(val, FindFrom(val, <<SP, "=", SP>>, 1))
    ELSE Returned(val)

\* faulty variant: the failure of black is raised
Unformatted_Raises(val) == Raised("InvalidPython")

\* lines 171-174: the value is kept as written, "** " losing its space
Unformatted(val) ==
    Returned(IF Contains(val, <<"*", "*">>)
             THEN Replace(val, <<"*", "*", SP>>, <<"*", "*">>) ELSE val)

\* lines 164-174, b being what run_black_format_str(val) gave
AfterBlack(parameter, val, b, target_indent) ==
    IF b.ok THEN Indented(parameter, string_format(b.out, target_indent))
    ELSE Unformatted(val)

FormatValue(parameter, val, target_indent) ==
    AfterBlack(parameter, val, run_black_format_str(val), target_indent)

\* faulty variant: no comma whatever the kind
Terminated_NeverComma(fv, comments, single_param) ==
    IF ~fv.ok THEN fv
    ELSE Returned(Strip(fv.out, {NL}) \o comments \o <<NL>>)

\* faulty variant: a comma whatever the kind
Terminated_AlwaysComma(fv, comments, single_param) ==
    IF ~fv.ok THEN fv
    ELSE Returned(Strip(fv.out, {NL}) \o <<",">> \o comments \o <<NL>>)

\* lines 176-181
Terminated(fv, comments, single_param) ==
    IF ~fv.ok THEN fv
    ELSE IF single_param THEN Returned(Strip(fv.out, {NL}) \o comments \o <<NL>>)
    ELSE Returned(Strip(fv.out, {NL}) \o <<",">> \o comments \o <<NL>>)

\* faulty variant: the validity check of lines 157-160 left out
FormatParamAt_Unchecked(parameter, target_indent, inline_formatting, single_param) ==
    Terminated(
        FormatValue(parameter,
                    IF inline_formatting
                    THEN Replace(ParameterStr(parameter), <<NL>>, <<>>)
                    ELSE ParameterStr(parameter),
                    target_indent),
        Join(<<NL>> \o Repeat(TAB, target_indent), parameter.comments),
        single_param)

\* lines 154-181, target_indent being 0 under inline formatting
FormatParamAt(parameter, target_indent, inline_formatting, single_param) ==
    IF ~AstParses(ParameterStr(parameter)) THEN Raised("InvalidParameterSyntax")
    ELSE Terminated(
             FormatValue(parameter,
                         IF inline_formatting
                         THEN Replace(ParameterStr(parameter), <<NL>>, <<>>)
                         ELSE ParameterStr(parameter),
                         target_indent),
             Join(<<NL>> \o Repeat(TAB, target_indent), parameter.comments),
             single_param)

format_param(parameter, target_indent, inline_formatting, single_param) ==
    FormatParamAt(parameter, IF inline_formatting THEN 0 ELSE target_indent,
                  inline_formatting, single_param)

\* faulty variant: the rule-like context does not cancel inline formatting
InlineFormatting_NoRuleOverride(p_class, in_rule) == IsSingleParamKind(p_class)

\* inline formatting: single-parameter kinds, except in a rule-like context
\* when the kind is not RuleInlineSingleParam
InlineFormatting(p_class, in_rule) ==
    IsSingleParamKind(p_class) /\ ~(in_rule /\ p_class # RuleInlineSingleParam)

ParamsHeader(parameters) ==
    Repeat(TAB, parameters.target_indent - 1) \o parameters.keyword_name
    \o <<":">> \o parameters.comment

\* the loop over all_params: the first exception ends it
RECURSIVE FormatAll(_, _, _, _, _)
RECURSIVE FormatRest(_, _, _, _, _, _)
FormatRest(r, acc, elems, target_indent, inline_fmting, single_param) ==
    IF ~r.ok THEN r
    ELSE FormatAll(acc \o r.out, Tail(elems), target_indent, inline_fmting, single_param)
FormatAll(acc, elems, target_indent, inline_fmting, single_param) ==
    IF elems = <<>> THEN Returned(acc)
    ELSE FormatRest(format_param(elems[1], target_indent, inline_fmting, single_param),
                    acc, elems, target_indent, inline_fmting, single_param)

format_params(parameters, in_rule) ==
    FormatAll(ParamsHeader(parameters)
              \o (IF InlineFormatting(parameters.kind, in_rule) THEN <<SP>> ELSE <<NL>>),
              parameters.all_params, parameters.target_indent,
              InlineFormatting(parameters.kind, in_rule),
              IsSingleParamKind(parameters.kind))

-----------------------------------------------------------------------------
(* The engine's state and its emission calls *)

State == [result |-> result, lagging_comments |-> lagging_comments, first |-> first]

Running == pc = "run" /\ nev < MaxEvents

\* what the history variables record of a formatted block
AllCommentLines(text) ==
    \A i \in 1..Len(SplitLines(text)) : IsCommentLine(SplitLines(text)[i])
TrailingRun(text) ==
    LET ls == SplitLines(text)
        n == Max({k \in 0..Len(ls) :
                     \A i \in (Len(ls) - k + 1)..Len(ls) : IsCommentLine(ls[i])})
    IN  SubSeq(ls, Len(ls) - n + 1, Len(ls))

\* the engine's variables after a call that returned st
Becomes(st) ==
    /\ result' = st.result
    /\ lagging_comments' = st.lagging_comments
    /\ first' = st.first

\* faulty variant: the trailing blank line is not restored
Formatted_NoRestore(text, fmted, target_indent) ==
    IF target_indent > 0 THEN TextwrapIndent(fmted, Repeat(TAB, target_indent))
    ELSE fmted

\* lines 91-96, fmted being what run_black_format_str gave for the buffer
Formatted(text, fmted, target_indent) ==
    (IF target_indent > 0 THEN TextwrapIndent(fmted, Repeat(TAB, target_indent))
     ELSE fmted)
    \o (IF EndsWith(text, <<NL, NL>>) THEN <<NL>> ELSE <<>>)

\* line 96 and what the history variables record of the block
Commit(target_indent, formatted, final_flush) ==
    /\ Becomes(add_newlines(State, target_indent, formatted, final_flush))
    /\ deferred' = IF target_indent = 0
                   THEN deferred \o TrailingRun(formatted) ELSE deferred
    /\ nonCommentTop' = (nonCommentTop \/ (target_indent = 0 /\ ~AllCommentLines(formatted)))
    /\ contentCommit' = (contentCommit \/ target_indent > 0 \/ ~AllCommentLines(formatted))

\* faulty variant: text black rejects is committed as written before the
\* error is raised
FlushCode_CommitsRejected(text, b, target_indent, final_flush) ==
    /\ Commit(target_indent, IF b.ok THEN Formatted(text, b.out, target_indent) ELSE text,
              final_flush)
    /\ buffer' = <<>>
    /\ pc' = IF ~b.ok THEN "error" ELSE IF final_flush THEN "done" ELSE "run"
    /\ err' = IF b.ok THEN err ELSE "InvalidPython"

\* lines 86-96
FlushCode(text, b, target_indent, final_flush) ==
    IF ~b.ok
    THEN /\ buffer' = text
         /\ pc' = "error"
         /\ err' = "InvalidPython"
         /\ UNCHANGED <<result, lagging_comments, first,
                        deferred, nonCommentTop, contentCommit>>
    ELSE /\ Commit(target_indent, Formatted(text, b.out, target_indent), final_flush)
         /\ buffer' = <<>>
         /\ pc' = IF final_flush THEN "done" ELSE "run"
         /\ UNCHANGED err

\* faulty variant: the test of line 81 left out
FlushBuffer_NoBlankTest(text, target_indent, from_python, final_flush) ==
    /\ Running
    /\ nev' = nev + 1
    /\ UNCHANGED <<lastGroup, rendered, pin, pout>>
    /\ IF from_python
       THEN /\ result' = result \o RStrip(text, {SP})
            /\ buffer' = <<>>
            /\ pc' = IF final_flush THEN "done" ELSE "run"
            /\ UNCHANGED <<lagging_comments, first, err,
                           deferred, nonCommentTop, contentCommit>>
       ELSE FlushCode(text, run_black_format_str(text), target_indent, final_flush)

\* flush_buffer, called with the parser's buffer holding text and its
\* target_indent being target_indent
FlushBuffer(text, target_indent, from_python, final_flush) ==
    /\ Running
    /\ nev' = nev + 1
    /\ UNCHANGED <<lastGroup, rendered, pin, pout>>
    /\ IF Len(text) = 0 \/ IsSpace(text)
       THEN /\ result' = result \o text
            /\ buffer' = <<>>
            /\ pc' = IF final_flush THEN "done" ELSE "run"
            /\ UNCHANGED <<lagging_comments, first, err,
                           deferred, nonCommentTop, contentCommit>>
       ELSE IF from_python
       THEN /\ result' = result \o RStrip(text, {SP})
            /\ buffer' = <<>>
            /\ pc' = IF final_flush THEN "done" ELSE "run"
            /\ UNCHANGED <<lagging_comments, first, err,
                           deferred, nonCommentTop, contentCommit>>
       ELSE FlushCode(text, run_black_format_str(text), target_indent, final_flush)

\* line 108
Header(cur_indent, keyword_name, comment) ==
    Repeat(TAB, cur_indent) \o keyword_name \o <<":">> \o comment \o <<NL>>

Appended(st, text) == [st EXCEPT !.result = st.result \o text]

\* process_keyword_context, the context holding cur_indent, keyword_name, comment
ProcessKeywordContext(cur_indent, keyword_name, comment) ==
    /\ Running
    /\ nev' = nev + 1
    /\ Becomes(Appended(add_newlines(State, cur_indent, <<>>, FALSE),
                        Header(cur_indent, keyword_name, comment)))
    /\ nonCommentTop' = (nonCommentTop \/ cur_indent = 0)
    /\ contentCommit' = TRUE
    /\ UNCHANGED <<buffer, pc, err, deferred, lastGroup, rendered, pin, pout>>

\* line 113, r being what format_params gave
AddParams(st, r, target_indent) ==
    /\ Becomes(IF r.ok THEN Appended(st, r.out) ELSE st)
    /\ pc' = IF r.ok THEN "run" ELSE "error"
    /\ err' = IF r.ok THEN err ELSE r.err
    /\ nonCommentTop' = (nonCommentTop \/ (target_indent = 1 /\ r.ok))

\* process_keyword_param; in_rule is issubclass(incident_vocab.__class__, SnakeRule)
ProcessKeywordParam(param_context, in_rule) ==
    /\ Running
    /\ nev' = nev + 1
    /\ AddParams(add_newlines(State, param_context.target_indent - 1, <<>>, FALSE),
                 format_params(param_context, in_rule), param_context.target_indent)
    /\ contentCommit' = TRUE
    /\ lastGroup' = [g |-> param_context, in_rule |-> in_rule]
    /\ rendered' = format_params(param_context, in_rule)
    /\ UNCHANGED <<buffer, deferred, pin, pout>>

-----------------------------------------------------------------------------
(* Inputs *)

Code == <<"a", NL>>
CodeBlank == <<"a", NL, NL>>
CodeComment == <<"a", NL, HASH, "c", NL>>
Comments == <<HASH, "c", NL, HASH, "d", NL>>
CommentBlank == <<HASH, "c", NL, NL>>
BadCode == <<"a", "(", NL>>
Structural == <<"i", ":", NL, SP, SP, SP, SP>>

PendingTexts ==
    {<<>>, <<NL>>, Code, CodeBlank, CodeComment, Comments, CommentBlank, BadCode,
     Structural}

KeywordName == <<"k">>
KeywordComments == {<<>>, <<SP, HASH, "c">>}

Param(key, value, comments) == [key |-> key, value |-> value, comments |-> comments]
PValue == Param(<<>>, <<"v">>, <<>>)
PKeyed == Param(<<"k">>, <<"v">>, <<>>)
PCommented == Param(<<>>, <<"v">>, << <<SP, HASH, "c">> >>)
PTwoLines == Param(<<>>, <<"v", NL, "w">>, <<>>)
PUnclosed == Param(<<>>, <<"d", "(">>, <<>>)
PStatements == Param(<<>>, <<"v", ";", "w">>, <<>>)
PSplat == Param(<<>>, <<"*", "*", SP, "c">>, <<>>)
PStar == Param(<<>>, <<"*", "c">>, <<>>)
PDoc == Param(<<>>, DQ3 \o <<NL>> \o TAB \o <<"d", NL>> \o TAB \o DQ3, <<>>)
PStarTwoLines == Param(<<>>, <<"*", "c", NL, "d">>, <<>>)
PSplatCommented == Param(<<>>, <<"*", "*", SP, "c">>, << <<SP, HASH, "c">> >>)

SomeParameters ==
    {PValue, PKeyed, PCommented, PTwoLines, PUnclosed, PStatements, PSplat, PStar, PDoc,
     PStarTwoLines, PSplatCommented}

\* a group of the list kind holds any number of parameters, a group of a
\* single-parameter kind holds one
ParamLists(kind, ps) ==
    {<<p>> : p \in ps}
    \cup (IF kind = ParamList THEN {<<>>} \cup {<<PValue, p>> : p \in ps} ELSE {})

Group(kind, target_indent, comment, all_params) ==
    [kind |-> kind, keyword_name |-> KeywordName, comment |-> comment,
     target_indent |-> target_indent, all_params |-> all_params]

\* the groups of the whole-engine specification: a group under a rule-like
\* keyword sits one level deeper than a top-level one
MainGroups ==
    {[g |-> Group(kind, IF in_rule THEN 2 ELSE 1, <<>>, <<p>>), in_rule |-> in_rule] :
        kind \in ParamKinds, in_rule \in BOOLEAN, p \in {PValue, PUnclosed}}

NoCall == [called |-> FALSE, out |-> <<>>]
NoGroup == [g |-> Group(ParamList, 1, <<>>, <<>>), in_rule |-> FALSE]
NotRendered == [ok |-> FALSE, err |-> "none", out |-> <<>>]

Init ==
    /\ result = <<>>
    /\ lagging_comments = <<>>
    /\ first = TRUE
    /\ buffer = <<>>
    /\ pc = "run"
    /\ err = ""
    /\ nev = 0
    /\ deferred = <<>>
    /\ nonCommentTop = FALSE
    /\ contentCommit = FALSE
    /\ lastGroup = NoGroup
    /\ rendered = NotRendered
    /\ pin = [string |-> <<>>, target_indent |-> 0]
    /\ pout = NoCall

Flush ==
    \E text \in PendingTexts, target_indent \in 0..MaxIndent,
       from_python \in BOOLEAN, final_flush \in BOOLEAN :
        FlushBuffer(text, target_indent, from_python, final_flush)

KeywordContext ==
    \E cur_indent \in 0..MaxIndent, comment \in KeywordComments :
        ProcessKeywordContext(cur_indent, KeywordName, comment)

KeywordParam ==
    \E x \in MainGroups : ProcessKeywordParam(x.g, x.in_rule)

Next == Flush \/ KeywordContext \/ KeywordParam

Spec == Init /\ [][Next]_vars

-----------------------------------------------------------------------------
(* The parameter renderer on its own: one emission call sets the context,  *)
(* then parameter groups of every kind, depth and rule context are         *)
(* rendered.                                                               *)

ParamSteps == 2

GroupsOfKind(kind) ==
    {[g |-> Group(kind, target_indent, <<>>, ps), in_rule |-> in_rule] :
        target_indent \in 1..(MaxIndent + 1),
        in_rule \in BOOLEAN, ps \in ParamLists(kind, SomeParameters)}

WideGroups ==
    UNION {GroupsOfKind(kind) : kind \in ParamKinds}
    \cup {[g |-> Group(kind, 1, <<SP, HASH, "c">>, <<PValue>>), in_rule |-> FALSE] :
            kind \in ParamKinds}

ContextFlush ==
    /\ nev = 0
    /\ \E text \in {Code, CodeComment, Comments} : FlushBuffer(text, 0, FALSE, FALSE)

ContextKeyword ==
    /\ nev = 0
    /\ \E cur_indent \in 0..MaxIndent : ProcessKeywordContext(cur_indent, KeywordName, <<>>)

RenderGroup ==
    /\ nev >= 1
    /\ nev < ParamSteps
    /\ \E x \in WideGroups : ProcessKeywordParam(x.g, x.in_rule)

NextParams == ContextFlush \/ ContextKeyword \/ RenderGroup

SpecParams == Init /\ [][NextParams]_vars

-----------------------------------------------------------------------------
(* string_format on its own *)

MaxDepth == 2

LiteralBodies ==
    {<<>>,
     <<HT, "e">>,
     <<NL>> \o TAB \o <<"e">>,
     <<NL>> \o TAB \o <<"e", NL>> \o TAB \o <<SP, SP, "g">>,
     <<NL, HT, "e", NL>> \o TAB \o <<"g">>,
     <<NL, SP, SP, "e", NL, NL>> \o TAB \o <<"g">>,
     <<NL>> \o TAB \o <<"e", NL, SP, SP, NL>> \o TAB \o <<"g">>}

LiteralStrings ==
    {pre \o q \o l0 \o body \o close \o q \o post :
        pre \in {<<>>, <<"x", SP, "=", SP>>},
        q \in {DQ3, SQ3},
        l0 \in {<<>>, <<"d">>},
        body \in LiteralBodies,
        close \in {<<>>, <<NL>>, <<NL>> \o TAB, <<NL, SP, SP>>},
        post \in {<<>>, <<NL>>}}

InitIndent ==
    /\ result = <<>>
    /\ lagging_comments = <<>>
    /\ first = TRUE
    /\ buffer = <<>>
    /\ pc = "run"
    /\ err = ""
    /\ nev = 0
    /\ deferred = <<>>
    /\ nonCommentTop = FALSE
    /\ contentCommit = FALSE
    /\ lastGroup = NoGroup
    /\ rendered = NotRendered
    /\ pin \in [string : LiteralStrings, target_indent : 0..MaxDepth]
    /\ pout = NoCall

StringFormatCall ==
    /\ ~pout.called
    /\ pout' = [called |-> TRUE, out |-> string_format(pin.string, pin.target_indent)]
    /\ UNCHANGED <<result, lagging_comments, first, buffer, pc, err, nev, deferred,
                   nonCommentTop, contentCommit, lastGroup, rendered, pin>>

NextIndent == StringFormatCall

SpecIndent == InitIndent /\ [][NextIndent]_vars

-----------------------------------------------------------------------------
(* Properties of the emission engine *)

\* a flush that reaches add_newlines: normal code that is not whitespace-only
\* and that black accepts
IsCodeBlock(text) == Len(text) > 0 /\ ~IsSpace(text) /\ PyValid(text)

TopLevelKeywordStep ==
    \E comment \in KeywordComments : ProcessKeywordContext(0, KeywordName, comment)
TopLevelParamStep ==
    \E x \in MainGroups : x.g.target_indent = 1 /\ ProcessKeywordParam(x.g, x.in_rule)
TopLevelCodeStep ==
    \E text \in PendingTexts, final_flush \in BOOLEAN :
        IsCodeBlock(text) /\ FlushBuffer(text, 0, FALSE, final_flush)
TopLevelCommit == TopLevelKeywordStep \/ TopLevelParamStep \/ TopLevelCodeStep

\* a text that is empty or starts a line with something other than a line break
StartsBlock(text) == text = <<>> \/ text[1] # NL

TrailingNewlines(text) == Len(text) - Len(RStrip(text, {NL}))
BlankLinesAtEnd(text) ==
    IF TrailingNewlines(text) = 0 THEN 0 ELSE TrailingNewlines(text) - 1

NoBlankLine(text) ==
    \A i \in 1..Len(SplitLines(text)) : Strip(SplitLines(text)[i], Whitespace) # <<>>

\* C1, as stated: when a top-level keyword section follows an earlier
\* top-level block, exactly one blank line lies between the output so far and
\* the section (its attached comments included).
C1_OneBlankLineBetweenBlocks ==
    [][\A comment \in KeywordComments :
          (ProcessKeywordContext(0, KeywordName, comment) /\ nonCommentTop)
          => BlankLinesAtEnd(SubSeq(result', 1,
                 Len(result') - Len(lagging_comments)
                 - Len(Header(0, KeywordName, comment)))) = 1]_vars

\* C1, amended: every top-level commit made once first is false appends
\* exactly one separator of two line breaks and then text that does not start
\* with a line break; as the output before it ends in a line break, a
\* top-level keyword section is preceded by two blank lines.
C1_OneSeparatorOfTwoNewlines ==
    [][/\ (TopLevelCommit /\ ~first)
          => /\ StartsWith(result', result \o Separator)
             /\ StartsBlock(Drop(result', Len(result) + Len(Separator)))
       /\ \A comment \in KeywordComments :
            (/\ ProcessKeywordContext(0, KeywordName, comment)
             /\ ~first
             /\ TrailingNewlines(result) = 1)
            => BlankLinesAtEnd(SubSeq(result', 1,
                   Len(result') - Len(lagging_comments)
                   - Len(Header(0, KeywordName, comment)))) = 2]_vars

C1_Witness ==
    EndsWith(result, Code \o Separator \o <<"k", ":", NL>>)

\* the lines of a block before its trailing comment run, as committed
BeforeRun(text) ==
    IF Len(TrailingRun(text)) = Len(SplitLines(text)) THEN <<>>
    ELSE RStrip(Join(<<NL>>, SubSeq(SplitLines(text), 1,
                                     Len(SplitLines(text)) - Len(TrailingRun(text)))),
                Whitespace) \o <<NL>>

\* C2: the trailing comment run of a top-level code block is held back (the
\* lines before it are committed without it), only a top-level commit changes
\* what is held, and a top-level keyword section writes the separator, then
\* the held comments, then directly its header line.
C2_CommentsAttachToNextSection ==
    [][/\ \A text \in PendingTexts :
            (/\ IsCodeBlock(text)
             /\ FlushBuffer(text, 0, FALSE, FALSE)
             /\ TrailingRun(Formatted(text, run_black_format_str(text).out, 0)) # <<>>)
            => /\ lagging_comments' =
                   Join(<<NL>>,
                        TrailingRun(Formatted(text, run_black_format_str(text).out, 0)))
                   \o <<NL>>
               /\ result' = result \o (IF first THEN <<>> ELSE Separator)
                            \o lagging_comments
                            \o BeforeRun(Formatted(text, run_black_format_str(text).out, 0))
       /\ (lagging_comments' # lagging_comments) => TopLevelCommit
       /\ \A comment \in KeywordComments :
            (ProcessKeywordContext(0, KeywordName, comment) /\ lagging_comments # <<>>)
            => /\ result' = result \o (IF first THEN <<>> ELSE Separator)
                            \o lagging_comments \o Header(0, KeywordName, comment)
               /\ lagging_comments' = <<>>]_vars

C2_Witness ==
    EndsWith(result, Code \o Separator \o <<HASH, "c", NL, "k", ":", NL>>)

Occurrences(x, seq) == Cardinality({i \in 1..Len(seq) : seq[i] = x})

\* C3, as stated: when the run has ended with a final flush, every comment
\* line that was deferred is a line of the output, as many times as it was
\* deferred.
C3_DeferredCommentsCommitted ==
    pc = "done"
    => \A i \in 1..Len(deferred) :
          Occurrences(deferred[i], deferred)
          <= Occurrences(deferred[i], SplitLines(result))

\* C4, as stated: before a top-level commit has written the first
\* non-comment line, the output holds no blank line.
C4_NoBlankLineBeforeFirstBlock ==
    ~nonCommentTop => NoBlankLine(result)

\* C4, amended: a top-level commit made while first is true appends the held
\* comments, which hold no blank line, and then text that does not start with
\* a line break: no separator and no blank line of its own.
C4_NoSeparatorWhileFirst ==
    [][(TopLevelCommit /\ first)
       => /\ StartsWith(result', result \o lagging_comments)
          /\ NoBlankLine(lagging_comments)
          /\ StartsBlock(Drop(result', Len(result) + Len(lagging_comments)))]_vars

C4_Witness ==
    result = Comments \o <<"k", ":", NL>>

\* C10, as stated: first is false exactly when a top-level commit has written
\* a line that is not a comment.
C10_FirstIffTopLevelContent ==
    first = ~nonCommentTop

\* C10, amended: first never returns to true, and it is false exactly when
\* some commit was a keyword header, a parameter group, a code block at
\* target indent > 0, or a top-level code block that is not made of comment
\* lines only; whitespace-only and structural flushes never change it.
C10_FirstIffContentCommitted ==
    /\ [](first = ~contentCommit)
    /\ [][~first => ~first']_vars

C10_Witness ==
    ~first /\ ~nonCommentTop /\ pc = "run"

-----------------------------------------------------------------------------
(* Properties of the parameter renderer, over the last group rendered *)

GroupRendered == rendered # NotRendered
LayoutChar == rendered.out[Len(ParamsHeader(lastGroup.g)) + 1]
InlineLayout ==
    /\ rendered.ok
    /\ StartsWith(rendered.out, ParamsHeader(lastGroup.g) \o <<SP>>)
    /\ CountChar(rendered.out, NL) = 1
BlockLayout ==
    /\ rendered.ok
    /\ StartsWith(rendered.out, ParamsHeader(lastGroup.g) \o <<NL>>)
    /\ CountChar(rendered.out, NL) >= 1 + Len(lastGroup.g.all_params)
Commas == CountChar(rendered.out, ",")

\* C5: a group that rendered is appended to the output, and it is laid out
\* inline (header, a space, the value, all on one line) exactly when its kind
\* is a single-parameter kind and it is not in a rule-like context with a kind
\* other than RuleInlineSingleParam; otherwise it is laid out in block style
\* (header, line break, at least one line per parameter).
C5_InlineIffSingleOutsideRule ==
    rendered.ok
    => /\ EndsWith(result, rendered.out)
       /\ IF /\ lastGroup.g.kind \in {SingleParam, RuleInlineSingleParam}
             /\ ~(lastGroup.in_rule /\ lastGroup.g.kind # RuleInlineSingleParam)
          THEN InlineLayout /\ LayoutChar = SP
          ELSE BlockLayout /\ LayoutChar = NL

C5_Witness ==
    /\ lastGroup.g.kind = SingleParam
    /\ lastGroup.in_rule
    /\ lastGroup.g.all_params = <<PValue>>
    /\ BlockLayout

\* C6, as stated: in block layout every parameter of the group ends with a
\* comma.
C6_BlockLayoutAlwaysCommas ==
    BlockLayout => Commas = Len(lastGroup.g.all_params)

\* C6, amended: in block layout every parameter of a ParamList group ends
\* with a comma and the parameter of a single-parameter kind (block layout
\* under a rule-like keyword) has none; the inline layout has none.
C6_CommasByKindInBlockLayout ==
    /\ (BlockLayout /\ lastGroup.g.kind = ParamList)
       => Commas = Len(lastGroup.g.all_params)
    /\ (BlockLayout /\ lastGroup.g.kind # ParamList) => Commas = 0
    /\ InlineLayout => Commas = 0
    /\ rendered.ok => (InlineLayout \/ BlockLayout)

C6_Witness ==
    /\ lastGroup.g.kind = SingleParam
    /\ lastGroup.in_rule
    /\ lastGroup.g.target_indent = 2
    /\ rendered = Returned(TAB \o <<"k", ":", NL>> \o TAB \o TAB \o <<"v", NL>>)

InvalidValues(g) ==
    {g.all_params[i].value : i \in {k \in 1..Len(g.all_params) :
                                       ~AstParses(ParameterStr(g.all_params[k]))}}

\* C7: when a parameter of the group rendered fails the validity check, the
\* call raised InvalidParameterSyntax, the run has stopped with that error,
\* and the output holds no part of the value, whether black accepts the value
\* or not and whatever the layout.
C7_InvalidValueRaises ==
    (GroupRendered /\ InvalidValues(lastGroup.g) # {})
    => /\ rendered = Raised("InvalidParameterSyntax")
       /\ pc = "error"
       /\ err = "InvalidParameterSyntax"
       /\ \A v \in InvalidValues(lastGroup.g) : ~Contains(result, v)
       /\ ~Contains(result, <<"(">>)
       /\ ~Contains(result, <<";">>)

C7_Witness ==
    /\ GroupRendered
    /\ lastGroup.g.all_params = <<PValue, PUnclosed>>
    /\ ~run_black_format_str(PUnclosed.value).ok
    /\ err = "InvalidParameterSyntax"

-----------------------------------------------------------------------------
(* Properties of string_format, over the call made *)

\* the lines the first literal of a text spans, the first from its line start
LiteralLines(s) ==
    LET m == TripleQuoteMatch(s)
        breaks == {i \in 1..(m.start - 1) : s[i] = NL}
    IN  SplitNL(SubSeq(s, IF breaks = {} THEN 1 ELSE Max(breaks) + 1, m.end))

\* the width of a line's leading whitespace, a tab counting as TAB
IndentWidth(line) == Len(LeadingWhitespace(Replace(line, <<HT>>, TAB)))

HasContent(line) == Strip(line, Whitespace) # <<>>
HasBodyContent(line) ==
    HasContent(Replace(Replace(line, DQ3, <<>>), SQ3, <<>>))

MultiLineLiteralFormatted ==
    /\ pout.called
    /\ TripleQuoteMatch(pin.string).start # 0
    /\ Len(LiteralLines(pin.string)) > 1

SameRelativeIndent(i, j) ==
    IndentWidth(LiteralLines(pout.out)[j]) - IndentWidth(LiteralLines(pout.out)[i])
    = IndentWidth(LiteralLines(pin.string)[j]) - IndentWidth(LiteralLines(pin.string)[i])

\* C8, as stated: between any two lines of a multi-line literal that are not
\* blank, delimiter lines included, the difference of indentation is the same
\* in the output as in the input.
C8_RelativeIndentAllLines ==
    MultiLineLiteralFormatted
    => /\ Len(LiteralLines(pout.out)) = Len(LiteralLines(pin.string))
       /\ \A i, j \in 1..Len(LiteralLines(pin.string)) :
            (HasContent(LiteralLines(pin.string)[i])
             /\ HasContent(LiteralLines(pin.string)[j]))
            => SameRelativeIndent(i, j)

\* C8, amended: the literal keeps its number of lines, and between any two of
\* its lines after the first that hold something other than the delimiter the
\* difference of indentation (a tab counting as four columns) is the same in
\* the output as in the input.
C8_RelativeIndentBodyLines ==
    MultiLineLiteralFormatted
    => /\ Len(LiteralLines(pout.out)) = Len(LiteralLines(pin.string))
       /\ \A i, j \in 2..Len(LiteralLines(pin.string)) :
            (HasBodyContent(LiteralLines(pin.string)[i])
             /\ HasBodyContent(LiteralLines(pin.string)[j]))
            => SameRelativeIndent(i, j)

C8_Witness ==
    /\ pout.called
    /\ pin.target_indent = 2
    /\ pin.string = DQ3 \o <<NL>> \o TAB \o <<"e", NL>> \o TAB \o <<SP, SP, "g", NL>>
                    \o TAB \o DQ3
    /\ pout.out = TAB \o TAB \o DQ3 \o <<NL>> \o TAB \o TAB \o <<"e", NL>>
                  \o TAB \o TAB \o <<SP, SP, "g", NL>> \o TAB \o TAB \o DQ3

-----------------------------------------------------------------------------
(* flush_buffer on its own: a run made of flushes only *)

FlushSteps == 2

\* a code block that holds a multi-line literal
DocCode == DQ3 \o <<NL, SP, SP, "d", NL>> \o DQ3 \o <<NL>>

FlushTexts == PendingTexts \cup {DocCode}

FlushStep ==
    /\ nev < FlushSteps
    /\ \E text \in FlushTexts, target_indent \in 0..MaxIndent,
          from_python \in BOOLEAN, final_flush \in BOOLEAN :
           FlushBuffer(text, target_indent, from_python, final_flush)

NextFlush == FlushStep

SpecFlush == Init /\ [][NextFlush]_vars

-----------------------------------------------------------------------------
(* Properties of flush_buffer *)

IsBlank(text) == Len(text) = 0 \/ IsSpace(text)

\* C11: a flush of empty or whitespace-only text appends the text as it is,
\* leaves the buffer empty, leaves lagging_comments and first as they were
\* and raises nothing, at every target indent and for both values of
\* from_python and final_flush.
C11_BlankFlushVerbatim ==
    [][\A text \in PendingTexts, target_indent \in 0..MaxIndent,
          from_python \in BOOLEAN, final_flush \in BOOLEAN :
          (IsBlank(text) /\ FlushBuffer(text, target_indent, from_python, final_flush))
          => /\ result' = result \o text
             /\ buffer' = <<>>
             /\ lagging_comments' = lagging_comments
             /\ first' = first
             /\ err' = err
             /\ pc' # "error"]_vars

C11_Witness ==
    /\ result = <<"a", NL, NL>>
    /\ lagging_comments = <<HASH, "c", NL>>
    /\ ~first

\* what a code flush wrote for its own block: at top level the text after the
\* separator and the comments held before, elsewhere the text appended
BlockWritten(target_indent) ==
    IF target_indent = 0 THEN Drop(result', Len(WithLagging(State)))
    ELSE Drop(result', Len(result))

EndsInBlankLine(text) == EndsWith(text, <<NL, NL>>)

\* C12, as stated: at every target indent, what a code flush writes for its
\* block ends with exactly one blank line when the pending text ends in a
\* blank line, and with none otherwise.
C12_BlankLineRestoredEverywhere ==
    [][\A text \in FlushTexts, target_indent \in 0..MaxIndent, final_flush \in BOOLEAN :
          (IsCodeBlock(text) /\ FlushBuffer(text, target_indent, FALSE, final_flush))
          => BlankLinesAtEnd(BlockWritten(target_indent))
             = IF EndsInBlankLine(text) THEN 1 ELSE 0]_vars

\* C12, amended: the text handed to add_newlines ends with exactly one blank
\* line when the pending text ends in a blank line and with none otherwise;
\* what is written keeps that blank line at target indent > 0 only, the
\* top-level commit stripping it.
C12_BlankLineKeptBelowTopLevel ==
    /\ \A text \in FlushTexts, target_indent \in 0..MaxIndent :
          IsCodeBlock(text)
          => BlankLinesAtEnd(Formatted(text, run_black_format_str(text).out, target_indent))
             = IF EndsInBlankLine(text) THEN 1 ELSE 0
    /\ [][\A text \in FlushTexts, target_indent \in 0..MaxIndent,
             final_flush \in BOOLEAN :
             (IsCodeBlock(text) /\ FlushBuffer(text, target_indent, FALSE, final_flush))
             => BlankLinesAtEnd(BlockWritten(target_indent))
                = IF EndsInBlankLine(text) /\ target_indent > 0 THEN 1 ELSE 0]_vars

C12_Witness ==
    result = TAB \o CodeBlank

\* C13: when black rejects the pending text of a code flush, the flush raises
\* InvalidPython with result, lagging_comments and first as they were, and
\* no step is taken once an error was raised.
C13_InvalidPythonLeavesOutput ==
    [][/\ \A text \in PendingTexts, target_indent \in 0..MaxIndent,
             final_flush \in BOOLEAN :
             (/\ ~IsBlank(text)
              /\ ~run_black_format_str(text).ok
              /\ FlushBuffer(text, target_indent, FALSE, final_flush))
             => /\ pc' = "error"
                /\ err' = "InvalidPython"
                /\ result' = result
                /\ lagging_comments' = lagging_comments
                /\ first' = first
       /\ pc # "error"]_vars

C13_Witness ==
    /\ pc = "error"
    /\ err = "InvalidPython"
    /\ buffer = BadCode
    /\ result = Code
    /\ lagging_comments = <<HASH, "c", NL>>

-----------------------------------------------------------------------------
(* Properties of format_param, over the last parameter of the last group *)

LastParam == lastGroup.g.all_params[Len(lastGroup.g.all_params)]

\* the last parameter passes the validity check and black rejects it
LastParamUnformattable ==
    /\ GroupRendered
    /\ lastGroup.g.all_params # <<>>
    /\ \A i \in 1..Len(lastGroup.g.all_params) :
          AstParses(ParameterStr(lastGroup.g.all_params[i]))
    /\ ~run_black_format_str(ParameterStr(LastParam)).ok

LastInline == InlineFormatting(lastGroup.g.kind, lastGroup.in_rule)

SplatSpaceRemoved(val) ==
    IF Contains(val, <<"*", "*">>) THEN Replace(val, <<"*", "*", SP>>, <<"*", "*">>)
    ELSE val

\* the comma and the comments that end a rendered parameter
Ending(parameter) ==
    (IF lastGroup.g.kind = ParamList THEN <<",">> ELSE <<>>)
    \o Join(<<NL>> \o Repeat(TAB, IF LastInline THEN 0 ELSE lastGroup.g.target_indent),
            parameter.comments)
    \o <<NL>>

C15_CommaIffListKind ==
    (rendered.ok /\ lastGroup.g.all_params # <<>>)
    => IF IsSingleParamKind(lastGroup.g.kind)
       THEN /\ ~Contains(rendered.out, <<",">>)
            /\ InlineLayout \/ BlockLayout
       ELSE /\ CountChar(rendered.out, ",") = Len(lastGroup.g.all_params)
            /\ EndsWith(rendered.out,
                        <<",">> \o Join(<<NL>> \o Repeat(TAB, lastGroup.g.target_indent),
                                        LastParam.comments) \o <<NL>>)

C15_Witness ==
    /\ lastGroup.g.kind = ParamList
    /\ lastGroup.g.all_params = <<PValue, PCommented>>
    /\ lastGroup.g.target_indent = 1
    /\ rendered = Returned(<<"k", ":", NL>> \o TAB \o <<"v", ",", NL>>
                           \o TAB \o <<"v", ",", SP, HASH, "c", NL>>)

-----------------------------------------------------------------------------
(* Properties of string_format on single-line literals *)

FirstLiteral(s) == SubSeq(s, TripleQuoteMatch(s).start, TripleQuoteMatch(s).end)

\* the text starts with a triple-quoted literal that lies on one line
SingleLineLiteralFormatted ==
    /\ pout.called
    /\ TripleQuoteMatch(pin.string).start = 1
    /\ CountChar(FirstLiteral(pin.string), NL) = 0

\* C16, as stated: the output for a text that starts with a single-line
\* literal is the target indent followed by the literal, character for
\* character, at every depth.
C16_SingleLineLiteralUntouched ==
    SingleLineLiteralFormatted
    => StartsWith(pout.out,
                  Repeat(TAB, pin.target_indent) \o FirstLiteral(pin.string))

-----------------------------------------------------------------------------
(* Properties of the commit step *)

\* C17, as stated: the text a code flush hands to add_newlines is
\* string_format of black's output at the target indent (then the blank line
\* restored), which at target indent > 0 is the text appended to result.
C17_FlushUsesStringFormat ==
    [][\A text \in FlushTexts, target_indent \in 1..MaxIndent, final_flush \in BOOLEAN :
          (IsCodeBlock(text) /\ FlushBuffer(text, target_indent, FALSE, final_flush))
          => result' = result
                       \o string_format(run_black_format_str(text).out, target_indent)
                       \o (IF EndsInBlankLine(text) THEN <<NL>> ELSE <<>>)]_vars

IndentedKeywordStep(cur_indent) ==
    \E comment \in KeywordComments :
        /\ ProcessKeywordContext(cur_indent, KeywordName, comment)
        /\ result' = result \o Header(cur_indent, KeywordName, comment)

\* C18: a code flush at target indent > 0 appends the formatted text and
\* nothing else, a keyword header at indent > 0 appends its header line and
\* nothing else, a parameter group under such a header appends what
\* format_params gave and nothing else; each leaves lagging_comments as it was.
C18_IndentedCommitAppendsAsIs ==
    [][/\ \A text \in PendingTexts, target_indent \in 1..MaxIndent,
             final_flush \in BOOLEAN :
             (IsCodeBlock(text) /\ FlushBuffer(text, target_indent, FALSE, final_flush))
             => /\ result' = result \o Formatted(text, run_black_format_str(text).out,
                                                 target_indent)
                /\ lagging_comments' = lagging_comments
       /\ \A cur_indent \in 1..MaxIndent :
             (\E comment \in KeywordComments :
                 ProcessKeywordContext(cur_indent, KeywordName, comment))
             => (IndentedKeywordStep(cur_indent) /\ lagging_comments' = lagging_comments)
       /\ \A x \in MainGroups :
             (x.g.target_indent > 1 /\ ProcessKeywordParam(x.g, x.in_rule))
             => /\ lagging_comments' = lagging_comments
                /\ result' = result \o (IF rendered'.ok THEN rendered'.out ELSE <<>>)]_vars

C18_Witness ==
    /\ result = Code \o TAB \o Code \o TAB \o <<HASH, "c", NL>>
    /\ lagging_comments = <<HASH, "c", NL>>

\* the lines of a block before its trailing comment run
LinesBeforeRun(text) ==
    SubSeq(SplitLines(text), 1, Len(SplitLines(text)) - Len(TrailingRun(text)))

\* the text without its trailing whitespace, as lines
LinesUpToTrailingSpace(text) == SplitLines(RStrip(text, Whitespace))

\* C19, as stated: in a top-level commit of a block, the old held comments
\* are written before anything of the block, and the lines written for the
\* block followed by the lines then held are the block's lines in order (up
\* to trailing whitespace of what is written), the held lines being the
\* maximal trailing run of comment lines.
C19_WrittenThenHeldIsBlock ==
    [][\A text \in FlushTexts, final_flush \in BOOLEAN :
          (IsCodeBlock(text) /\ FlushBuffer(text, 0, FALSE, final_flush))
          => /\ StartsWith(result', WithLagging(State))
             /\ SplitLines(lagging_comments')
                = TrailingRun(Formatted(text, run_black_format_str(text).out, 0))
             /\ LinesUpToTrailingSpace(BlockWritten(0)) \o SplitLines(lagging_comments')
                = LinesUpToTrailingSpace(
                      Join(<<NL>>, LinesBeforeRun(
                          Formatted(text, run_black_format_str(text).out, 0))))
                  \o TrailingRun(Formatted(text, run_black_format_str(text).out, 0))]_vars

\* C19, amended: as stated for a flush that is not final; in a final flush
\* the lines written for the block are all the block's lines, the trailing
\* run included, and the trailing run is held as well.
C19_WrittenIsBlockHeldIsRun ==
    [][\A text \in FlushTexts, final_flush \in BOOLEAN :
          (IsCodeBlock(text) /\ FlushBuffer(text, 0, FALSE, final_flush))
          => /\ StartsWith(result', WithLagging(State))
             /\ SplitLines(lagging_comments')
                = TrailingRun(Formatted(text, run_black_format_str(text).out, 0))
             /\ LinesUpToTrailingSpace(BlockWritten(0))
                \o (IF final_flush THEN <<>> ELSE SplitLines(lagging_comments'))
                = LinesUpToTrailingSpace(
                      Join(<<NL>>, LinesBeforeRun(
                          Formatted(text, run_black_format_str(text).out, 0))))
                  \o TrailingRun(Formatted(text, run_black_format_str(text).out, 0))]_vars

C19_Witness ==
    /\ result = Code \o Separator \o <<HASH, "c", NL>> \o Code
    /\ lagging_comments = <<HASH, "c", NL>>
    /\ pc = "run"

\* C20, as stated: a step that appends to result while comments are held
\* appends, after the separator if any, the held comments before any other
\* text, whatever the event is.
C20_HeldCommentsWrittenFirst ==
    [][(lagging_comments # <<>> /\ result' # result)
       => \/ StartsWith(result', result \o lagging_comments)
          \/ StartsWith(result', result \o Separator \o lagging_comments)]_vars

\* C20, amended: while comments are held, a top-level commit appends the
\* separator (when first is false) and then the held comments before any
\* other text, a top-level keyword header or parameter group leaving none
\* held; every other step (a whitespace-only or structural flush, a commit at
\* target indent > 0, a flush black rejects) leaves the held comments held,
\* whatever it appends.
C20_HeldUntilTopLevelCommit ==
    [][lagging_comments # <<>>
       => IF TopLevelCommit
          THEN /\ StartsWith(result', WithLagging(State))
               /\ (TopLevelKeywordStep \/ TopLevelParamStep) => lagging_comments' = <<>>
          ELSE /\ lagging_comments' = lagging_comments
               /\ StartsWith(result', result)]_vars

C20_Witness ==
    /\ result = Code \o TAB \o Code \o Separator \o <<HASH, "c", NL, "k", ":", NL>>
    /\ lagging_comments = <<>>

====
